---------------------------- MODULE Spec2Model ----------------------------
(***************************************************************************)
(* Model of the agent contract (BaseAgent, AgentInputSchema,               *)
(* AgentOutputSchema), of HumanDesignAgent and of ChatInterface.sendMessage *)
(* of the Somatic Alignment app.                                           *)
(*                                                                         *)
(* Conventions.  A JavaScript string is a sequence of non-empty chunks     *)
(* (a chunk is a piece of literal text or one character); '' is << >> and  *)
(* concatenation is \o.  A JavaScript scalar is a record [t, s, n] where   *)
(* t is its runtime type, s its text when it is a string and n its number  *)
(* when it is a number.  Longitudes are in thousandths of a degree and a   *)
(* confidence is in hundredths.                                            *)
(***************************************************************************)
EXTENDS Integers, Sequences, FiniteSets

VARIABLES
    messages,            \* messagesAtom: the chat history
    input,               \* useState(''): the text of the input box
    isLoading,           \* useState(false)
    birthData,           \* birthDataAtom
    pc,                  \* position of the sendMessage run
    query,               \* const query = input
    agentOutcome,        \* what hdAgent.execute(...) returned or threw
    assistantMessageId,  \* const assistantMessageId
    genPrompt,           \* the prompt of the generateText call of this run
    genPath,             \* "agent" | "generic" | "none": the branch that called generateText
    execCount,           \* executions of the agent started by this run
    genCount,            \* generateText calls made by this run
    thrown,              \* the exception in flight inside the try block
    escaped,             \* an exception left sendMessage
    now,                 \* Date.now()
    sends,               \* runs of sendMessage started so far
    fullResponse,        \* let fullResponse = ''
    runBase,             \* the length of messages when this run started
    agentOutputs,        \* agentOutputsAtom: the agent outputs cache
    executed,            \* every hdAgent.execute call so far: its request and outcome
    call,                \* contract harness: the last call of a function of the agent
    chainPc,             \* position in the agent chaining flow
    settled,             \* the values Promise.all has collected, by index
    completionOrder,     \* the order in which the calculator agents completed
    userContext,         \* the userContext of the chaining flow
    mergedContext,       \* the context handed to crossMapperAgent.execute
    env,                 \* process.env after dotenv/config
    scriptPc,            \* position of the test script
    started,             \* the tests called so far, in order
    results,             \* the booleans the tests returned, in order
    awaited,             \* model calls the running test has awaited
    modelCalls,          \* model calls made by the script
    exitCode             \* the exit code of the script

vars == <<messages, input, isLoading, birthData, pc, query, agentOutcome,
          assistantMessageId, genPrompt, genPath, execCount, genCount,
          thrown, escaped, now, sends, fullResponse, runBase, agentOutputs,
          executed, call, chainPc, settled, completionOrder, userContext,
          mergedContext, env, scriptPc, started, results, awaited, modelCalls,
          exitCode>>

chainVars == <<chainPc, settled, completionOrder, userContext, mergedContext>>

scriptVars == <<env, scriptPc, started, results, awaited, modelCalls, exitCode>>

chatVars == <<messages, input, isLoading, birthData, pc, query, agentOutcome,
              assistantMessageId, genPrompt, genPath, execCount, genCount,
              thrown, escaped, now, sends, fullResponse, runBase, agentOutputs,
              executed>>

-----------------------------------------------------------------------------
(* Bounds *)

MaxSends == 2
MaxTime == 4
MaxKeywordSends == 1
LongitudeStep == 125
MaxGates == 2

-----------------------------------------------------------------------------
(* JavaScript values *)

Undef == [t |-> "undefined", s |-> << >>, n |-> 0]
Str(x) == [t |-> "string", s |-> x, n |-> 0]
Num(k) == [t |-> "number", s |-> << >>, n |-> k]
NaN == [t |-> "nan", s |-> << >>, n |-> 0]

\* An array value: items is the sequence of its elements, each a scalar.
NoArr == [t |-> "undefined", items |-> << >>]
Arr(xs) == [t |-> "array", items |-> xs]

\* A plain object used as a map: entries is its sequence of <<key, value>>.
NoMap == [t |-> "undefined", entries |-> << >>]
Map(es) == [t |-> "object", entries |-> es]

RECURSIVE Flatten(_)
Flatten(ss) == IF ss = << >> THEN << >> ELSE Head(ss) \o Flatten(Tail(ss))

RECURSIVE Join(_, _)
Join(ss, sep) ==
    IF ss = << >> THEN << >>
    ELSE IF Len(ss) = 1 THEN Head(ss)
    ELSE Head(ss) \o sep \o Join(Tail(ss), sep)

Digits == <<"0", "1", "2", "3", "4", "5", "6", "7", "8", "9">>

\* Number.prototype.toString() of a natural number: its decimal digits.
RECURSIVE ToString(_)
ToString(k) ==
    IF k < 10 THEN <<Digits[k + 1]>>
    ELSE ToString(k \div 10) \o <<Digits[(k % 10) + 1]>>

-----------------------------------------------------------------------------
(* zod: a schema check returns the sequence of issues it raises, in the    *)
(* order zod visits the keys; parse throws a ZodError holding all of them.  *)

Issue(path, code) == [path |-> path, code |-> code]

ZString(v, path) ==
    IF v.t = "string" THEN << >> ELSE <<Issue(path, "invalid_type")>>

\* z.number() rejects every non-number, NaN included.
ZNumber(v, path) ==
    IF v.t = "number" THEN << >> ELSE <<Issue(path, "invalid_type")>>

RECURSIVE ZItemsOfString(_, _, _)
ZItemsOfString(items, i, path) ==
    IF i > Len(items) THEN << >>
    ELSE ZString(items[i], path \o <<Digits[i]>>) \o ZItemsOfString(items, i + 1, path)

\* z.array(z.string()).optional()
ZOptionalArrayOfString(a, path) ==
    IF a.t = "undefined" THEN << >>
    ELSE IF a.t # "array" THEN <<Issue(path, "invalid_type")>>
    ELSE ZItemsOfString(a.items, 1, path)

\* z.record(z.string(), z.any()).optional()
ZOptionalRecord(m, path) ==
    IF m.t \in {"undefined", "object"} THEN << >> ELSE <<Issue(path, "invalid_type")>>

ZOptionalString(v, path) ==
    IF v.t = "undefined" THEN << >> ELSE ZString(v, path)

\* The message of a ZodError: JSON.stringify of its issues.
RECURSIVE IssuesText(_)
IssuesText(issues) ==
    IF issues = << >> THEN << >>
    ELSE <<"{code:", Head(issues).code, ",path:">> \o Head(issues).path \o <<"}">>
         \o IssuesText(Tail(issues))

ZodError(issues) ==
    [name |-> "ZodError", message |-> <<"[">> \o IssuesText(issues) \o <<"]">>,
     issues |-> issues]

PlainError(text) == [name |-> "Error", message |-> text, issues |-> << >>]

NoError == [name |-> "none", message |-> << >>, issues |-> << >>]

Nothing == [t |-> "undefined"]

-----------------------------------------------------------------------------
(* AgentInputSchema *)

LocationIssues(loc, path) ==
    IF loc.t # "object" THEN <<Issue(path, "invalid_type")>>
    ELSE ZNumber(loc.latitude, path \o <<"latitude">>)
         \o ZNumber(loc.longitude, path \o <<"longitude">>)

BirthDataIssues(bd, path) ==
    IF bd.t = "undefined" THEN << >>
    ELSE IF bd.t # "object" THEN <<Issue(path, "invalid_type")>>
    ELSE ZString(bd.date, path \o <<"date">>)
         \o ZString(bd.time, path \o <<"time">>)
         \o LocationIssues(bd.location, path \o <<"location">>)

ContextIssues(c, path) ==
    IF c.t # "object" THEN <<Issue(path, "invalid_type")>>
    ELSE BirthDataIssues(c.birthData, path \o <<"birthData">>)
         \o ZOptionalRecord(c.healthMetrics, path \o <<"healthMetrics">>)
         \o ZOptionalArrayOfString(c.journalThemes, path \o <<"journalThemes">>)
         \o ZOptionalString(c.userQuery, path \o <<"userQuery">>)

AgentInputIssues(raw) ==
    IF raw.t # "object" THEN <<Issue(<< >>, "invalid_type")>>
    ELSE ZString(raw.framework, <<"framework">>)
         \o ContextIssues(raw.context, <<"context">>)

\* What parse returns for a request without issues: z.object keeps the keys
\* of the schema and strips every other key, here the upstream-results map.
AgentInputParsed(raw) ==
    [t |-> "object",
     framework |-> raw.framework,
     context |-> [t |-> "object",
                  birthData |-> raw.context.birthData,
                  healthMetrics |-> raw.context.healthMetrics,
                  journalThemes |-> raw.context.journalThemes,
                  userQuery |-> raw.context.userQuery,
                  upstream |-> NoMap]]

\* validateInput stopping at the first issue it finds
validateInputFirstIssue(raw) ==
    LET issues == AgentInputIssues(raw)
    IN  IF issues = << >>
        THEN [ok |-> TRUE, value |-> AgentInputParsed(raw), error |-> NoError]
        ELSE [ok |-> FALSE, value |-> Nothing, error |-> ZodError(<<Head(issues)>>)]

validateInput(raw) ==
    LET issues == AgentInputIssues(raw)
    IN  IF issues = << >>
        THEN [ok |-> TRUE, value |-> AgentInputParsed(raw), error |-> NoError]
        ELSE [ok |-> FALSE, value |-> Nothing, error |-> ZodError(issues)]

-----------------------------------------------------------------------------
(* AgentOutputSchema *)

ConfidenceScale == 100

\* The confidence schema without its upper limit
ConfidenceIssuesNoMax(v, path) ==
    IF v.t = "undefined" THEN << >>
    ELSE IF v.t # "number" THEN <<Issue(path, "invalid_type")>>
    ELSE IF v.n < 0 THEN <<Issue(path, "too_small")>> ELSE << >>

\* z.number().min(0).max(1).optional(), the number in hundredths
ConfidenceIssues(v, path) ==
    IF v.t = "undefined" THEN << >>
    ELSE IF v.t # "number" THEN <<Issue(path, "invalid_type")>>
    ELSE (IF v.n < 0 THEN <<Issue(path, "too_small")>> ELSE << >>)
         \o (IF v.n > 1 * ConfidenceScale THEN <<Issue(path, "too_big")>> ELSE << >>)

AgentOutputIssues(raw) ==
    IF raw.t # "object" THEN <<Issue(<< >>, "invalid_type")>>
    ELSE ZOptionalArrayOfString(raw.correlations, <<"correlations">>)
         \o ZString(raw.interpretationSeed, <<"interpretationSeed">>)
         \o ZString(raw.method, <<"method">>)
         \o ConfidenceIssues(raw.confidence, <<"confidence">>)

AgentOutputParsed(raw) ==
    [t |-> "object",
     calculation |-> raw.calculation,
     correlations |-> raw.correlations,
     interpretationSeed |-> raw.interpretationSeed,
     visualizationData |-> raw.visualizationData,
     method |-> raw.method,
     confidence |-> raw.confidence]

\* validateOutput stopping at the first issue it finds
validateOutputFirstIssue(raw) ==
    LET issues == AgentOutputIssues(raw)
    IN  IF issues = << >>
        THEN [ok |-> TRUE, value |-> AgentOutputParsed(raw), error |-> NoError]
        ELSE [ok |-> FALSE, value |-> Nothing, error |-> ZodError(<<Head(issues)>>)]

validateOutput(raw) ==
    LET issues == AgentOutputIssues(raw)
    IN  IF issues = << >>
        THEN [ok |-> TRUE, value |-> AgentOutputParsed(raw), error |-> NoError]
        ELSE [ok |-> FALSE, value |-> Nothing, error |-> ZodError(issues)]

-----------------------------------------------------------------------------
(* HumanDesignAgent *)

frameworks == <<"human-design", "gene-keys", "i-ching">>

\* Planetary positions in which the Sun moves with the place of birth
calculatePlanetaryPositionsByPlace(bd) ==
    << [planet |-> "Sun", longitude |-> 120500 + 1000 * bd.location.longitude.n],
       [planet |-> "Earth", longitude |-> 300500],
       [planet |-> "Moon", longitude |-> 45200],
       [planet |-> "Mercury", longitude |-> 110800],
       [planet |-> "Venus", longitude |-> 95300],
       [planet |-> "Mars", longitude |-> 200700],
       [planet |-> "Jupiter", longitude |-> 150400],
       [planet |-> "Saturn", longitude |-> 275900],
       [planet |-> "Uranus", longitude |-> 330100],
       [planet |-> "Neptune", longitude |-> 60600],
       [planet |-> "Pluto", longitude |-> 180200] >>

\* The planetary positions: the same mock list whatever the birth data.
calculatePlanetaryPositions(bd) ==
    << [planet |-> "Sun", longitude |-> 120500],
       [planet |-> "Earth", longitude |-> 300500],
       [planet |-> "Moon", longitude |-> 45200],
       [planet |-> "Mercury", longitude |-> 110800],
       [planet |-> "Venus", longitude |-> 95300],
       [planet |-> "Mars", longitude |-> 200700],
       [planet |-> "Jupiter", longitude |-> 150400],
       [planet |-> "Saturn", longitude |-> 275900],
       [planet |-> "Uranus", longitude |-> 330100],
       [planet |-> "Neptune", longitude |-> 60600],
       [planet |-> "Pluto", longitude |-> 180200] >>

\* 360 / 64 degrees, in thousandths of a degree
degreesPerGate == 360000 \div 64

\* Math.ceil in place of Math.floor(...) + 1
longitudeToGateCeil(longitude) ==
    [gate |-> (longitude + degreesPerGate - 1) \div degreesPerGate,
     line |-> (((longitude % degreesPerGate) * 6) \div degreesPerGate) + 1]

longitudeToGate(longitude) ==
    [gate |-> (longitude \div degreesPerGate) + 1,
     line |-> (((longitude % degreesPerGate) * 6) \div degreesPerGate) + 1]

centerMapping ==
    << <<"Head", {61, 63, 64}>>,
       <<"Ajna", {47, 24, 4, 17, 43, 11}>>,
       <<"Throat", {62, 23, 56, 35, 12, 45, 33, 8, 31, 20, 16}>>,
       <<"G Center", {7, 1, 13, 10, 15, 46, 25, 51}>>,
       <<"Sacral", {5, 14, 29, 59, 9, 3, 42, 27, 34}>>,
       <<"Solar Plexus", {6, 37, 22, 36, 30, 55, 49}>>,
       <<"Spleen", {48, 57, 44, 50, 32, 28, 18}>>,
       <<"Heart/Ego", {21, 40, 26, 51}>>,
       <<"Root", {52, 53, 54, 38, 39, 41, 19, 58, 60}>> >>

Range(f) == {f[i] : i \in DOMAIN f}

RECURSIVE CentersWhere(_, _, _)
CentersWhere(mapping, gates, wantDefined) ==
    IF mapping = << >> THEN << >>
    ELSE LET center == Head(mapping)[1]
             isDefined == \E g \in Range(gates) : g \in Head(mapping)[2]
         IN  (IF isDefined = wantDefined THEN <<center>> ELSE << >>)
             \o CentersWhere(Tail(mapping), gates, wantDefined)

\* determineCenters returning every center as undefined
determineCentersNoFilter(gates) ==
    [definedCenters |-> CentersWhere(centerMapping, gates, TRUE),
     undefinedCenters |-> [i \in DOMAIN centerMapping |-> centerMapping[i][1]]]

determineCenters(gates) ==
    [definedCenters |-> CentersWhere(centerMapping, gates, TRUE),
     undefinedCenters |-> CentersWhere(centerMapping, gates, FALSE)]

\* determineType without the check for no defined centers
determineTypeNoReflector(definedCenters) ==
    LET has(c) == c \in Range(definedCenters)
        hasSacral == has("Sacral")
        hasThroat == has("Throat")
        hasHeart == has("Heart/Ego")
        hasSolarPlexus == has("Solar Plexus")
    IN  IF hasSacral /\ hasThroat
        THEN [type |-> "Manifesting Generator", strategy |-> "Respond & Inform",
              authority |-> IF hasSolarPlexus THEN "Emotional Authority"
                            ELSE "Sacral Authority"]
        ELSE IF hasSacral
        THEN [type |-> "Generator", strategy |-> "Wait to Respond",
              authority |-> IF hasSolarPlexus THEN "Emotional Authority"
                            ELSE "Sacral Authority"]
        ELSE IF hasThroat /\ (hasHeart \/ has("G Center"))
        THEN [type |-> "Manifestor", strategy |-> "Inform before acting",
              authority |-> IF hasSolarPlexus THEN "Emotional Authority"
                            ELSE "Splenic Authority"]
        ELSE [type |-> "Projector", strategy |-> "Wait for Invitation",
              authority |-> IF hasSolarPlexus THEN "Emotional Authority"
                            ELSE IF has("Spleen") THEN "Splenic Authority"
                            ELSE "Self-Projected Authority"]

determineType(definedCenters) ==
    LET has(c) == c \in Range(definedCenters)
        hasSacral == has("Sacral")
        hasThroat == has("Throat")
        hasHeart == has("Heart/Ego")
        hasSolarPlexus == has("Solar Plexus")
    IN  IF Len(definedCenters) = 0
        THEN [type |-> "Reflector", strategy |-> "Wait 28 days (lunar cycle)",
              authority |-> "Lunar Authority"]
        ELSE IF hasSacral /\ hasThroat
        THEN [type |-> "Manifesting Generator", strategy |-> "Respond & Inform",
              authority |-> IF hasSolarPlexus THEN "Emotional Authority"
                            ELSE "Sacral Authority"]
        ELSE IF hasSacral
        THEN [type |-> "Generator", strategy |-> "Wait to Respond",
              authority |-> IF hasSolarPlexus THEN "Emotional Authority"
                            ELSE "Sacral Authority"]
        ELSE IF hasThroat /\ (hasHeart \/ has("G Center"))
        THEN [type |-> "Manifestor", strategy |-> "Inform before acting",
              authority |-> IF hasSolarPlexus THEN "Emotional Authority"
                            ELSE "Splenic Authority"]
        ELSE [type |-> "Projector", strategy |-> "Wait for Invitation",
              authority |-> IF hasSolarPlexus THEN "Emotional Authority"
                            ELSE IF has("Spleen") THEN "Splenic Authority"
                            ELSE "Self-Projected Authority"]

\* A JavaScript value used as a condition
Truthy(v) ==
    \/ v.t = "object"
    \/ v.t = "array"
    \/ v.t = "string" /\ v.s # << >>
    \/ v.t = "number" /\ v.n # 0

StringifyValue(v) ==
    IF v.t = "string" THEN <<"\"">> \o v.s \o <<"\"">>
    ELSE IF v.t = "number" THEN ToString(v.n)
    ELSE <<"null">>

RECURSIVE StringifyEntries(_)
StringifyEntries(es) ==
    IF es = << >> THEN << >>
    ELSE <<"\"", Head(es)[1], "\":">> \o StringifyValue(Head(es)[2])
         \o (IF Len(es) > 1 THEN <<",">> ELSE << >>)
         \o StringifyEntries(Tail(es))

\* JSON.stringify of a plain object
JSONstringify(m) == <<"{">> \o StringifyEntries(m.entries) \o <<"}">>

ChunkEach(names) == [i \in DOMAIN names |-> <<names[i]>>]

generateInterpretationPrompt(chart, context) ==
    <<"You are a Human Design expert providing personalized, somatic insights. ## User's Chart - Type: ",
      chart.type, " - Strategy: ", chart.strategy, " - Authority: ", chart.authority,
      " - Profile: ">> \o chart.profile
    \o <<" - Defined Centers: ">> \o Join(ChunkEach(chart.definedCenters), <<", ">>)
    \o <<" - Undefined Centers: ">> \o Join(ChunkEach(chart.undefinedCenters), <<", ">>)
    \o <<" - Key Gates: ">>
    \o Join([i \in 1..(IF Len(chart.gates) < 3 THEN Len(chart.gates) ELSE 3) |->
                ToString(chart.gates[i].gate) \o <<".">> \o ToString(chart.gates[i].line)],
            <<", ">>)
    \o <<" ## Context ">>
    \o (IF Truthy(context.userQuery)
        THEN <<"User Query: ">> \o context.userQuery.s
        ELSE <<"Provide overview">>)
    \o (IF Truthy(context.healthMetrics)
        THEN <<"Health Data: ">> \o JSONstringify(context.healthMetrics)
        ELSE << >>)
    \o <<" ## Instructions 1. Explain their ", chart.type,
         " nature with empathy and somatic grounding ... Keep response conversational, embodied, and empowering.">>

\* The candidate response execute builds from the validated request
HDOutput(validated) ==
    LET planets == calculatePlanetaryPositions(validated.context.birthData)
        allGates == [i \in DOMAIN planets |->
                        [gate |-> longitudeToGate(planets[i].longitude).gate,
                         line |-> longitudeToGate(planets[i].longitude).line,
                         planet |-> planets[i].planet,
                         design |-> i > 5]]
        gateNumbers == [i \in DOMAIN allGates |-> allGates[i].gate]
        centers == determineCenters(gateNumbers)
        hdType == determineType(centers.definedCenters)
        sunGate == allGates[1]
        earthGate == allGates[2]
        chart == [type |-> hdType.type,
                  strategy |-> hdType.strategy,
                  authority |-> hdType.authority,
                  profile |-> ToString(sunGate.line) \o <<"/">> \o ToString(earthGate.line),
                  definedCenters |-> centers.definedCenters,
                  undefinedCenters |-> centers.undefinedCenters,
                  gates |-> allGates,
                  channels |-> << >>,
                  incarnationCross |-> <<"Right Angle Cross of ">> \o ToString(sunGate.gate)
                                       \o <<"/">> \o ToString(earthGate.gate)]
    IN  [t |-> "object",
         calculation |-> chart,
         correlations |->
            Arr(<< Str(<<"Gate ">> \o ToString(sunGate.gate) \o <<" -> I Ching Hexagram ">>
                       \o ToString(sunGate.gate)),
                   Str(<<"Gate ">> \o ToString(sunGate.gate) \o <<" -> Gene Key ">>
                       \o ToString(sunGate.gate)) >>
                \o [i \in DOMAIN centers.definedCenters |->
                        Str(<<centers.definedCenters[i], " Center -> Chakra correlation">>)]),
         interpretationSeed |-> Str(generateInterpretationPrompt(chart, validated.context)),
         visualizationData |-> Undef,
         method |-> Str(<<"astronomical-calculation">>),
         confidence |-> Num(95)]

\* The outcome of an async call: ok with its value, or the error it threw.
\* calcRan tells whether calculatePlanetaryPositions was reached.
execute(request) ==
    LET validated == validateInput(request)
    IN  IF ~validated.ok
        THEN [ok |-> FALSE, value |-> Nothing, error |-> validated.error, calcRan |-> FALSE]
        ELSE IF ~Truthy(validated.value.context.birthData)
        THEN [ok |-> FALSE, value |-> Nothing,
              error |-> PlainError(<<"Birth data required for Human Design calculation">>),
              calcRan |-> FALSE]
        ELSE LET checked == validateOutput(HDOutput(validated.value))
             IN  [ok |-> checked.ok, value |-> checked.value, error |-> checked.error,
                  calcRan |-> TRUE]

getPromptTemplate ==
    generateInterpretationPrompt(
        [type |-> "Generator", strategy |-> "Wait to Respond",
         authority |-> "Sacral Authority", profile |-> <<"3/5">>,
         definedCenters |-> <<"Sacral", "Throat">>,
         undefinedCenters |-> <<"Root", "Solar Plexus">>,
         gates |-> << >>, channels |-> << >>, incarnationCross |-> <<"Sample Cross">>],
        [userQuery |-> Str(<<"Tell me about my design">>), healthMetrics |-> NoMap])

-----------------------------------------------------------------------------
(* Candidate requests and responses handed to the contract *)

NoBirthData ==
    [t |-> "undefined", date |-> Undef, time |-> Undef,
     location |-> [t |-> "undefined", latitude |-> Undef, longitude |-> Undef]]

NullBirthData == [NoBirthData EXCEPT !.t = "null"]

BirthDataOf(date, time, latitude, longitude) ==
    [t |-> "object", date |-> date, time |-> time,
     location |-> [t |-> "object", latitude |-> latitude, longitude |-> longitude]]

SomeBirthData == BirthDataOf(Str(<<"1985-06-02">>), Str(<<"07:45">>), Num(52), Num(13))

\* Coordinates that are numbers for the type checker and NaN at run time
NaNBirthData == BirthDataOf(Str(<<"1985-06-02">>), Str(<<"07:45">>), NaN, Num(13))

UndatedBirthData == BirthDataOf(Undef, Str(<<"07:45">>), Num(52), Num(13))

RawBirthData ==
    {NoBirthData, SomeBirthData, NaNBirthData, UndatedBirthData,
     [NoBirthData EXCEPT !.t = "string"]}

RawFrameworks ==
    {Str(<<"human-design">>), Str(<<"gene-keys">>), Str(<<"alpha">>), Undef, Num(7)}

RawHealthMetrics ==
    {NoMap, Map(<< <<"restingHeartRate", Num(60)>> >>), [t |-> "string", entries |-> << >>]}

RawJournalThemes ==
    {NoArr, Arr(<<Str(<<"rest">>), Str(<<"anger">>)>>), Arr(<<Str(<<"rest">>), Num(1)>>)}

RawUserQueries == {Undef, Str(<<"hello">>), Num(3)}

RawUpstream == {NoMap, Map(<< <<"astrology", Str(<<"Sun in Leo">>)>> >>)}

RawContexts ==
    {[t |-> "object", birthData |-> bd, healthMetrics |-> hm, journalThemes |-> jt,
      userQuery |-> uq, upstream |-> up] :
        bd \in RawBirthData, hm \in RawHealthMetrics, jt \in RawJournalThemes,
        uq \in RawUserQueries, up \in RawUpstream}
    \cup {[t |-> "undefined", birthData |-> NoBirthData, healthMetrics |-> NoMap,
           journalThemes |-> NoArr, userQuery |-> Undef, upstream |-> NoMap]}

RawRequests ==
    {[t |-> "object", framework |-> fw, context |-> c] :
        fw \in RawFrameworks, c \in RawContexts}

RawResponses ==
    {[t |-> ty, calculation |-> Undef, correlations |-> co, interpretationSeed |-> seed,
      visualizationData |-> Undef, method |-> me, confidence |-> cf] :
        ty \in {"object"},
        co \in {NoArr, Arr(<<Str(<<"Gate 22 -> Gene Key 22">>)>>), Arr(<<Num(22)>>)},
        seed \in {Undef, Str(<< >>), Str(<<"Explain the chart">>), Num(1)},
        me \in {Undef, Str(<<"deterministic">>), Num(2)},
        cf \in {Undef, Num(0 - 1), Num(0), Num(95), Num(100), Num(101), NaN,
                Str(<<"high">>)}}
    \cup {[t |-> "string", calculation |-> Undef, correlations |-> NoArr,
           interpretationSeed |-> Undef, visualizationData |-> Undef, method |-> Undef,
           confidence |-> Undef]}

-----------------------------------------------------------------------------
(* ChatInterface: strings typed into the input box, one character a chunk *)

Whitespace == {" ", "\n", "\t"}

RECURSIVE TrimStart(_)
TrimStart(str) ==
    IF str # << >> /\ Head(str) \in Whitespace THEN TrimStart(Tail(str)) ELSE str

RECURSIVE TrimEnd(_)
TrimEnd(str) ==
    IF str # << >> /\ str[Len(str)] \in Whitespace
    THEN TrimEnd(SubSeq(str, 1, Len(str) - 1))
    ELSE str

\* String.prototype.trim
trim(str) == TrimEnd(TrimStart(str))

LowerOf(ch) ==
    CASE ch = "A" -> "a" [] ch = "C" -> "c" [] ch = "D" -> "d" [] ch = "E" -> "e"
      [] ch = "G" -> "g" [] ch = "H" -> "h" [] ch = "I" -> "i" [] ch = "N" -> "n"
      [] ch = "P" -> "p" [] ch = "R" -> "r" [] ch = "S" -> "s" [] ch = "T" -> "t"
      [] ch = "Y" -> "y" [] OTHER -> ch

\* String.prototype.toLowerCase
toLowerCase(str) == [i \in DOMAIN str |-> LowerOf(str[i])]

\* String.prototype.includes
includes(str, part) ==
    \E i \in 1..(Len(str) - Len(part) + 1) : SubSeq(str, i, i + Len(part) - 1) = part

\* The keyword test without toLowerCase
IsHumanDesignQueryCaseSensitive(q) ==
    \/ includes(q, <<"d", "e", "s", "i", "g", "n">>)
    \/ includes(q, <<"c", "h", "a", "r", "t">>)
    \/ includes(q, <<"t", "y", "p", "e">>)
    \/ includes(q, <<"g", "a", "t", "e">>)

IsHumanDesignQuery(q) ==
    \/ includes(toLowerCase(q), <<"d", "e", "s", "i", "g", "n">>)
    \/ includes(toLowerCase(q), <<"c", "h", "a", "r", "t">>)
    \/ includes(toLowerCase(q), <<"t", "y", "p", "e">>)
    \/ includes(toLowerCase(q), <<"g", "a", "t", "e">>)

Queries ==
    { <<" ">>,
      <<"h", "i">>,
      <<"G", "a", "t", "e", "s", "?">> }

\* What birthDataAtom can hold: null, or birth data of the declared type
BirthDataValues == {NullBirthData, SomeBirthData, NaNBirthData}

mockBirthData ==
    BirthDataOf(Str(<<"1990-01-15">>), Str(<<"14:30">>), Num(40), Num(0 - 74))

\* What generateText resolves with (result.text) or rejects with
GenTexts == {<< >>, <<"Your design invites you to respond.">>}

GenErrors == {PlainError(<<"API key not valid">>)}

NoOutcome == [ok |-> FALSE, value |-> Nothing, error |-> NoError, calcRan |-> FALSE]

Message(id, role, content, timestamp, agentData) ==
    [id |-> id, role |-> role, content |-> content, timestamp |-> timestamp,
     agentData |-> agentData]

\* error instanceof Error ? error.message : 'Unknown error'
ErrorText(error) ==
    IF error.name \in {"Error", "ZodError", "TypeError"} THEN error.message
    ELSE <<"Unknown error">>

ErrorContent(error) ==
    <<"Sorry, I encountered an error: ">> \o ErrorText(error)
    \o <<". Please check your API key and model configuration.">>

\* The prompt taken from the agent's template instead of its response
AgentPromptTemplate(agentResult) == getPromptTemplate

\* prompt: agentResult.interpretationSeed
AgentPrompt(agentResult) == agentResult.interpretationSeed.s

GenericPrompt(q) ==
    <<"You are a compassionate guide for somatic alignment and self-mastery. User asks: \"">>
    \o q \o <<"\". Respond with empathy and embodied wisdom.">>

\* An update that rewrites every assistant message
UpdateContentAll(msgs, id, content) ==
    [i \in DOMAIN msgs |->
        IF msgs[i].role = "assistant" THEN [msgs[i] EXCEPT !.content = content]
        ELSE msgs[i]]

\* prev.map(msg => msg.id === id ? { ...msg, content } : msg)
UpdateContent(msgs, id, content) ==
    [i \in DOMAIN msgs |->
        IF msgs[i].id = id THEN [msgs[i] EXCEPT !.content = content] ELSE msgs[i]]

-----------------------------------------------------------------------------
(* ChatInterface.sendMessage as a state machine.  pc is                    *)
(* "idle" | "execute" | "placeholder" | "genericPlaceholder" | "awaitGen"  *)
(* | "catch" | "finally".                                                  *)

NoCall == [op |-> "none", arg |-> Nothing, result |-> Nothing]

\* The chat screen after its first render
ChatMounted ==
    /\ messages = << >>
    /\ input = << >>
    /\ isLoading = FALSE
    /\ pc = "idle"
    /\ query = << >>
    /\ agentOutcome = NoOutcome
    /\ assistantMessageId = << >>
    /\ genPrompt = << >>
    /\ genPath = "none"
    /\ execCount = 0
    /\ genCount = 0
    /\ thrown = NoError
    /\ escaped = FALSE
    /\ now = 0
    /\ sends = 0
    /\ fullResponse = << >>
    /\ runBase = 0
    /\ agentOutputs = NoMap
    /\ executed = << >>
    /\ call = NoCall

\* The pending slot of Promise.all
Pending == [producer |-> "none", calculation |-> "pending"]

NoContext == [t |-> "undefined"]

\* The chaining flow not started
ChainIdle ==
    /\ chainPc = "idle"
    /\ settled = [k \in 1..3 |-> Pending]
    /\ completionOrder = << >>
    /\ userContext = NoContext
    /\ mergedContext = NoContext

\* The test script not started
ScriptIdle ==
    /\ env = [EXPO_PUBLIC_GOOGLE_API_KEY |-> Undef, GOOGLE_API_KEY |-> Undef]
    /\ scriptPc = "idle"
    /\ started = << >>
    /\ results = << >>
    /\ awaited = 0
    /\ modelCalls = 0
    /\ exitCode = -1

Init ==
    /\ ChatMounted
    /\ birthData \in BirthDataValues
    /\ ChainIdle
    /\ ScriptIdle

\* The clock read by Date.now() advances
Tick ==
    /\ now < MaxTime
    /\ now' = now + 1
    /\ UNCHANGED <<messages, input, isLoading, birthData, pc, query, agentOutcome,
                   assistantMessageId, genPrompt, genPath, execCount, genCount,
                   thrown, escaped, sends, call, chainVars, scriptVars,
                   fullResponse, runBase, agentOutputs, executed>>

\* onChangeText={setInput}, the box being editable while not loading.  The
\* user's keystrokes arrive at a later millisecond than anything before them
ChangeText ==
    /\ ~isLoading
    /\ now < MaxTime
    /\ now' = now + 1
    /\ \E text \in Queries \ {input} : input' = text
    /\ UNCHANGED <<messages, isLoading, birthData, pc, query, agentOutcome,
                   assistantMessageId, genPrompt, genPath, execCount, genCount,
                   thrown, escaped, sends, call, chainVars, scriptVars,
                   fullResponse, runBase, agentOutputs, executed>>

\* sendMessage with a Send button that stays enabled while a run awaits
\* generateText, and an input box that is not cleared
SendMessageUnguarded ==
    /\ pc \in {"idle", "awaitGen"}
    /\ IF trim(input) = << >>
       THEN UNCHANGED <<messages, input, isLoading, pc, query, sends, runBase>>
       ELSE /\ sends < MaxSends
            /\ sends' = sends + 1
            /\ runBase' = Len(messages)
            /\ messages' = Append(messages,
                                  Message(ToString(now), "user", input, now, Nothing))
            /\ query' = input
            /\ input' = input
            /\ isLoading' = TRUE
            /\ pc' = IF IsHumanDesignQuery(input) THEN "execute" ELSE "genericPlaceholder"
    /\ UNCHANGED <<birthData, agentOutcome, assistantMessageId, genPrompt, genPath,
                   execCount, genCount, thrown, escaped, now, call, chainVars, scriptVars,
                   fullResponse, agentOutputs, executed>>

\* sendMessage up to its first await: the early return on a blank input,
\* the user message, the loading flag and the keyword detection
SendMessage ==
    /\ ~isLoading
    /\ IF trim(input) = << >>
       THEN UNCHANGED <<messages, input, isLoading, pc, query, sends, runBase>>
       ELSE /\ sends < MaxSends
            /\ sends' = sends + 1
            /\ runBase' = Len(messages)
            /\ messages' = Append(messages,
                                  Message(ToString(now), "user", input, now, Nothing))
            /\ query' = input
            /\ input' = << >>
            /\ isLoading' = TRUE
            /\ pc' = IF IsHumanDesignQuery(input) THEN "execute" ELSE "genericPlaceholder"
    /\ UNCHANGED <<birthData, agentOutcome, assistantMessageId, genPrompt, genPath,
                   execCount, genCount, thrown, escaped, now, call, chainVars, scriptVars,
                   fullResponse, agentOutputs, executed>>

\* The request sendMessage hands to hdAgent.execute
AgentRequest ==
    [t |-> "object",
     framework |-> Str(<<"human-design">>),
     context |-> [t |-> "object",
                  birthData |-> IF birthData.t = "null" THEN mockBirthData ELSE birthData,
                  healthMetrics |-> NoMap,
                  journalThemes |-> NoArr,
                  userQuery |-> Str(query),
                  upstream |-> NoMap]]

\* execute wrapped so that a failed agent yields a default response
ExecuteAgentWithFallback ==
    /\ pc = "execute"
    /\ LET outcome == execute(AgentRequest)
       IN  /\ agentOutcome' =
                 IF outcome.ok THEN outcome
                 ELSE [outcome EXCEPT !.value =
                          [t |-> "object", calculation |-> Undef, correlations |-> NoArr,
                           interpretationSeed |-> Str(<<"Provide overview">>),
                           visualizationData |-> Undef, method |-> Str(<<"fallback">>),
                           confidence |-> Undef]]
           /\ execCount' = execCount + 1
           /\ executed' = Append(executed, [request |-> AgentRequest, outcome |-> outcome])
           /\ pc' = "placeholder"
    /\ UNCHANGED <<messages, input, isLoading, birthData, query, assistantMessageId,
                   genPrompt, genPath, genCount, thrown, escaped, now, sends, call, chainVars, scriptVars,
                   fullResponse, runBase, agentOutputs>>

\* await hdAgent.execute(...): it returns the validated response or throws
ExecuteAgent ==
    /\ pc = "execute"
    /\ LET outcome == execute(AgentRequest)
       IN  /\ agentOutcome' = outcome
           /\ execCount' = execCount + 1
           /\ executed' = Append(executed, [request |-> AgentRequest, outcome |-> outcome])
           /\ IF outcome.ok
              THEN pc' = "placeholder" /\ thrown' = thrown
              ELSE pc' = "catch" /\ thrown' = outcome.error
    /\ UNCHANGED <<messages, input, isLoading, birthData, query, assistantMessageId,
                   genPrompt, genPath, genCount, escaped, now, sends, call, chainVars, scriptVars,
                   fullResponse, runBase, agentOutputs>>

\* The empty assistant message carrying agentData, then the generateText call
AddPlaceholder ==
    /\ pc = "placeholder"
    /\ assistantMessageId' = ToString(now + 1)
    /\ messages' = Append(messages,
                          Message(ToString(now + 1), "assistant", << >>, now,
                                  agentOutcome.value))
    /\ IF agentOutcome.value.interpretationSeed.t = "string"
       THEN /\ genPrompt' = AgentPrompt(agentOutcome.value)
            /\ genPath' = "agent"
            /\ genCount' = genCount + 1
            /\ pc' = "awaitGen"
            /\ thrown' = thrown
       ELSE \* interpretationSeed.substring is not a function
            /\ thrown' = [name |-> "TypeError",
                          message |-> <<"Cannot read properties of undefined">>,
                          issues |-> << >>]
            /\ pc' = "catch"
            /\ UNCHANGED <<genPrompt, genPath, genCount>>
    /\ UNCHANGED <<input, isLoading, birthData, query, agentOutcome, execCount,
                   escaped, now, sends, call, chainVars, scriptVars,
                   fullResponse, runBase, agentOutputs, executed>>

\* The generic branch: the empty assistant message, then the generateText call
AddGenericPlaceholder ==
    /\ pc = "genericPlaceholder"
    /\ assistantMessageId' = ToString(now + 1)
    /\ messages' = Append(messages,
                          Message(ToString(now + 1), "assistant", << >>, now, Nothing))
    /\ genPrompt' = GenericPrompt(query)
    /\ genPath' = "generic"
    /\ genCount' = genCount + 1
    /\ pc' = "awaitGen"
    /\ UNCHANGED <<input, isLoading, birthData, query, agentOutcome, execCount,
                   thrown, escaped, now, sends, call, chainVars, scriptVars,
                   fullResponse, runBase, agentOutputs, executed>>

\* generateText resolves and the answer is added as a further message
GenerateTextResolvesAppend ==
    /\ pc = "awaitGen"
    /\ \E text \in GenTexts :
          /\ fullResponse' = text
          /\ messages' = Append(messages,
                                Message(assistantMessageId, "assistant", text, now,
                                        agentOutcome.value))
    /\ pc' = "finally"
    /\ UNCHANGED <<input, isLoading, birthData, query, agentOutcome, assistantMessageId,
                   genPrompt, genPath, execCount, genCount, thrown, escaped, now,
                   sends, call, chainVars, scriptVars, runBase, agentOutputs, executed>>

\* generateText resolves: the placeholder gets result.text
GenerateTextResolves ==
    /\ pc = "awaitGen"
    /\ \E text \in GenTexts :
          /\ fullResponse' = text
          /\ messages' = UpdateContent(messages, assistantMessageId, text)
    /\ pc' = "finally"
    /\ UNCHANGED <<input, isLoading, birthData, query, agentOutcome, assistantMessageId,
                   genPrompt, genPath, execCount, genCount, thrown, escaped, now,
                   sends, call, chainVars, scriptVars, runBase, agentOutputs, executed>>

\* A rejected generateText call made again before giving up
GenerateTextRejectsRetry ==
    /\ pc = "awaitGen"
    /\ IF genCount < 2
       THEN /\ genCount' = genCount + 1
            /\ UNCHANGED <<pc, thrown>>
       ELSE /\ \E error \in GenErrors : thrown' = error
            /\ pc' = "catch"
    /\ UNCHANGED <<messages, input, isLoading, birthData, query, agentOutcome,
                   assistantMessageId, genPrompt, genPath, execCount,
                   escaped, now, sends, call, chainVars, scriptVars,
                   fullResponse, runBase, agentOutputs, executed>>

\* generateText rejects
GenerateTextRejects ==
    /\ pc = "awaitGen"
    /\ \E error \in GenErrors : thrown' = error
    /\ pc' = "catch"
    /\ UNCHANGED <<messages, input, isLoading, birthData, query, agentOutcome,
                   assistantMessageId, genPrompt, genPath, execCount, genCount,
                   escaped, now, sends, call, chainVars, scriptVars,
                   fullResponse, runBase, agentOutputs, executed>>

\* A catch block that logs and rethrows
CatchRethrow ==
    /\ pc = "catch"
    /\ pc' = "finally"
    /\ UNCHANGED <<messages, input, isLoading, birthData, query, agentOutcome,
                   assistantMessageId, genPrompt, genPath, execCount, genCount,
                   thrown, escaped, now, sends, call, chainVars, scriptVars,
                   fullResponse, runBase, agentOutputs, executed>>

\* catch (error): the error becomes an assistant message
Catch ==
    /\ pc = "catch"
    /\ messages' = Append(messages,
                          Message(ToString(now + 1), "assistant", ErrorContent(thrown),
                                  now, Nothing))
    /\ thrown' = NoError
    /\ pc' = "finally"
    /\ UNCHANGED <<input, isLoading, birthData, query, agentOutcome, assistantMessageId,
                   genPrompt, genPath, execCount, genCount, escaped, now, sends, call, chainVars, scriptVars,
                   fullResponse, runBase, agentOutputs, executed>>

\* The end of the run without setIsLoading(false)
FinallyKeepsLoading ==
    /\ pc = "finally"
    /\ isLoading' = isLoading
    /\ escaped' = (escaped \/ thrown.name # "none")
    /\ pc' = "idle"
    /\ query' = << >>
    /\ agentOutcome' = NoOutcome
    /\ assistantMessageId' = << >>
    /\ genPrompt' = << >>
    /\ genPath' = "none"
    /\ execCount' = 0
    /\ genCount' = 0
    /\ thrown' = NoError
    /\ fullResponse' = << >>
    /\ runBase' = 0
    /\ UNCHANGED <<messages, input, birthData, now, sends, call, chainVars, scriptVars,
                   agentOutputs, executed>>

\* finally: setIsLoading(false); an exception still in flight leaves
\* sendMessage; the locals of the run go out of scope
Finally ==
    /\ pc = "finally"
    /\ isLoading' = FALSE
    /\ escaped' = (escaped \/ thrown.name # "none")
    /\ pc' = "idle"
    /\ query' = << >>
    /\ agentOutcome' = NoOutcome
    /\ assistantMessageId' = << >>
    /\ genPrompt' = << >>
    /\ genPath' = "none"
    /\ execCount' = 0
    /\ genCount' = 0
    /\ thrown' = NoError
    /\ fullResponse' = << >>
    /\ runBase' = 0
    /\ UNCHANGED <<messages, input, birthData, now, sends, call, chainVars, scriptVars,
                   agentOutputs, executed>>

Next ==
    \/ Tick
    \/ ChangeText
    \/ SendMessage
    \/ ExecuteAgent
    \/ AddPlaceholder
    \/ AddGenericPlaceholder
    \/ GenerateTextResolves
    \/ GenerateTextRejects
    \/ Catch
    \/ Finally

Spec == Init /\ [][Next]_vars

\* What the user may type when the keyword detection is exercised: each
\* keyword, in lower, upper or mixed case or inside a longer word, and near
\* misses
KeywordQueries ==
    { <<" ">>,
      <<"h", "i">>,
      <<"m", "y", " ", "d", "e", "s", "i", "g", "n">>,
      <<"C", "H", "A", "R", "T">>,
      <<"T", "y", "p", "e", "?">>,
      <<"i", "n", "v", "e", "s", "t", "i", "g", "a", "t", "e">>,
      <<"d", "e", "s", "i", "g", " ", "n">>,
      <<"t", "y", "p", "o">>,
      <<"c", "h", "a", "r", "d", " ", "g", "a", "t", "s">> }

\* onChangeText={setInput} with those texts
ChangeTextKeyword ==
    /\ ~isLoading
    /\ now < MaxTime
    /\ now' = now + 1
    /\ \E text \in KeywordQueries \ {input} : input' = text
    /\ UNCHANGED <<messages, isLoading, birthData, pc, query, agentOutcome,
                   assistantMessageId, genPrompt, genPath, execCount, genCount,
                   thrown, escaped, sends, call, chainVars, scriptVars,
                   fullResponse, runBase, agentOutputs, executed>>

\* sendMessage, for a bounded number of sends
KeywordSendMessage ==
    /\ sends < MaxKeywordSends
    /\ SendMessage

KeywordNext ==
    \/ ChangeTextKeyword
    \/ KeywordSendMessage
    \/ ExecuteAgent
    \/ AddPlaceholder
    \/ AddGenericPlaceholder
    \/ GenerateTextResolves
    \/ GenerateTextRejects
    \/ Catch
    \/ Finally

KeywordSpec == Init /\ [][KeywordNext]_vars

\* await hdAgent.execute(...) settles: a run does not stay at the await
\* for ever.  ExecuteAgent is enabled exactly when pc = "execute" and every
\* ExecuteAgent step leaves that position, so this is weak fairness of
\* ExecuteAgent
AgentSettles == []<>(pc # "execute")

\* The other steps of a run: generateText settles, and the code between
\* and after the awaits runs
RunStep ==
    \/ AddPlaceholder
    \/ AddGenericPlaceholder
    \/ GenerateTextResolves
    \/ GenerateTextRejects
    \/ Catch
    \/ Finally

\* hdAgent.execute and generateText each return or throw
KeywordFairSpec == KeywordSpec /\ AgentSettles /\ WF_vars(RunStep)

-----------------------------------------------------------------------------
(* The contract on its own: one call of validateInput, validateOutput or   *)
(* execute on a candidate request or response                              *)

CallValidateInput ==
    /\ call.op = "none"
    /\ \E raw \in RawRequests :
          call' = [op |-> "validateInput", arg |-> raw, result |-> validateInput(raw)]
    /\ UNCHANGED <<chatVars, chainVars, scriptVars>>

CallValidateOutput ==
    /\ call.op = "none"
    /\ \E raw \in RawResponses :
          call' = [op |-> "validateOutput", arg |-> raw, result |-> validateOutput(raw)]
    /\ UNCHANGED <<chatVars, chainVars, scriptVars>>

CallExecute ==
    /\ call.op = "none"
    /\ \E raw \in RawRequests :
          call' = [op |-> "execute", arg |-> raw, result |-> execute(raw)]
    /\ UNCHANGED <<chatVars, chainVars, scriptVars>>

\* The ecliptic longitudes handed to longitudeToGate, in thousandths of a
\* degree: around every multiple of LongitudeStep from 0 to 360 degrees
Longitudes ==
    {L \in 0..360000 : L % LongitudeStep \in {0, 1, LongitudeStep - 1}}

CallLongitudeToGate ==
    /\ call.op = "none"
    /\ \E L \in Longitudes :
          call' = [op |-> "longitudeToGate", arg |-> L, result |-> longitudeToGate(L)]
    /\ UNCHANGED <<chatVars, chainVars, scriptVars>>

\* The names of the nine centers, in the order of centerMapping
CenterNames == [i \in DOMAIN centerMapping |-> centerMapping[i][1]]

\* Every list of defined centers determineCenters can return
DefinedCenterLists ==
    {SelectSeq(CenterNames, LAMBDA c : c \in names) : names \in SUBSET Range(CenterNames)}

CallDetermineType ==
    /\ call.op = "none"
    /\ \E centers \in DefinedCenterLists :
          call' = [op |-> "determineType", arg |-> centers,
                   result |-> determineType(centers)]
    /\ UNCHANGED <<chatVars, chainVars, scriptVars>>

\* Birth data of the declared type, differing in date, time and place
BirthDataCandidates ==
    {BirthDataOf(Str(<<d>>), Str(<<tm>>), Num(lat), Num(lon)) :
        d \in {"1985-06-02", "2001-12-31"}, tm \in {"07:45", "23:10"},
        lat \in {52, 0}, lon \in {13, 151}}

\* Requests for a chart that carry such birth data
BornRequests ==
    {[t |-> "object",
      framework |-> Str(<<"human-design">>),
      context |-> [t |-> "object", birthData |-> bd, healthMetrics |-> NoMap,
                   journalThemes |-> NoArr, userQuery |-> uq, upstream |-> NoMap]] :
        bd \in BirthDataCandidates, uq \in {Undef, Str(<<"hello">>)}}

CallExecuteBorn ==
    /\ call.op = "none"
    /\ \E request \in BornRequests :
          call' = [op |-> "execute", arg |-> request, result |-> execute(request)]
    /\ UNCHANGED <<chatVars, chainVars, scriptVars>>

\* The lists of gates handed to determineCenters: up to MaxGates gate
\* numbers, repeated or not, and the numbers next to the range 1..64
GateLists ==
    UNION {[1..n -> 0..65] : n \in 0..MaxGates}

CallDetermineCenters ==
    /\ call.op = "none"
    /\ \E gates \in GateLists :
          call' = [op |-> "determineCenters", arg |-> gates,
                   result |-> determineCenters(gates)]
    /\ UNCHANGED <<chatVars, chainVars, scriptVars>>

ContractNext ==
    \/ CallExecuteBorn
    \/ CallDetermineCenters
    \/ CallValidateInput
    \/ CallValidateOutput
    \/ CallExecute
    \/ CallLongitudeToGate
    \/ CallDetermineType

ContractSpec == Init /\ [][ContractNext]_vars

-----------------------------------------------------------------------------
(* Properties of the contract, under ContractSpec *)

Paths(issues) == {issues[i].path : i \in DOMAIN issues}

\* The fields of a candidate request that break AgentInputSchema, by path
ViolatedInputFields(raw) ==
    LET c == raw.context
        bd == c.birthData
        ctx == <<"context">>
    IN  {p \in {<<"framework">>} : raw.framework.t # "string"}
        \cup {p \in {ctx} : c.t # "object"}
        \cup (IF c.t # "object" THEN {} ELSE
              {p \in {ctx \o <<"birthData">>} : bd.t \notin {"undefined", "object"}}
              \cup (IF bd.t # "object" THEN {} ELSE
                    {p \in {ctx \o <<"birthData", "date">>} : bd.date.t # "string"}
                    \cup {p \in {ctx \o <<"birthData", "time">>} : bd.time.t # "string"}
                    \cup {p \in {ctx \o <<"birthData", "location">>} :
                            bd.location.t # "object"}
                    \cup (IF bd.location.t # "object" THEN {} ELSE
                          {p \in {ctx \o <<"birthData", "location", "latitude">>} :
                              bd.location.latitude.t # "number"}
                          \cup {p \in {ctx \o <<"birthData", "location", "longitude">>} :
                              bd.location.longitude.t # "number"}))
              \cup {p \in {ctx \o <<"healthMetrics">>} :
                      c.healthMetrics.t \notin {"undefined", "object"}}
              \cup {p \in {ctx \o <<"journalThemes">>} :
                      c.journalThemes.t \notin {"undefined", "array"}}
              \cup (IF c.journalThemes.t # "array" THEN {} ELSE
                    {ctx \o <<"journalThemes", Digits[i]>> :
                        i \in {j \in DOMAIN c.journalThemes.items :
                                  c.journalThemes.items[j].t # "string"}})
              \cup {p \in {ctx \o <<"userQuery">>} :
                      c.userQuery.t \notin {"undefined", "string"}})

OptionalContextFields ==
    {"birthData", "healthMetrics", "journalThemes", "userQuery", "upstream"}

\* C1: a request, well-formed but for its framework not being a registered
\* agent name, is rejected with an error naming that framework, and no
\* calculation step runs.
C1_UnknownFrameworkRejected ==
    (/\ call.op = "execute"
     /\ ViolatedInputFields(call.arg) = {}
     /\ \A i \in DOMAIN frameworks : call.arg.framework.s # <<frameworks[i]>>)
    => /\ ~call.result.ok
       /\ \E i \in DOMAIN call.result.error.message :
             <<call.result.error.message[i]>> = call.arg.framework.s
       /\ ~call.result.calcRan

\* execute serves a request for an unregistered framework: the chart is
\* calculated and a validated response returned
C1_UnregisteredServed ==
    /\ call.op = "execute"
    /\ call.arg.framework = Str(<<"alpha">>)
    /\ call.result.ok
    /\ call.result.calcRan
    /\ call.result.value.calculation.type = "Manifesting Generator"

\* C3: a candidate response lacking interpretationSeed, method or both is
\* rejected by validateOutput, and the error names each missing field.
C3_MissingFieldsNamed ==
    (call.op = "validateOutput" /\ call.arg.t = "object")
    => \A f \in {"interpretationSeed", "method"} :
          call.arg[f].t = "undefined"
          => /\ ~call.result.ok
             /\ <<f>> \in Paths(call.result.error.issues)
             /\ f \in Range(call.result.error.message)

C3_Witness ==
    /\ call.op = "validateOutput"
    /\ call.arg.t = "object"
    /\ call.arg.interpretationSeed.t = "undefined"
    /\ call.arg.method.t = "undefined"
    /\ ~call.result.ok
    /\ {<<"interpretationSeed">>, <<"method">>} \subseteq Paths(call.result.error.issues)

\* C4: validateInput accepts every valid request and returns a request with
\* the same optional context fields present, with the same values.
C4_OptionalFieldsRoundTrip ==
    (call.op = "validateInput" /\ ViolatedInputFields(call.arg) = {})
    => /\ call.result.ok
       /\ \A f \in OptionalContextFields :
             call.result.value.context[f] = call.arg.context[f]

\* C5: the error of validateInput lists every violated field of the request,
\* not only the first one.
C5_EveryViolatedFieldListed ==
    call.op = "validateInput"
    => /\ call.result.ok <=> ViolatedInputFields(call.arg) = {}
       /\ ViolatedInputFields(call.arg) \subseteq Paths(call.result.error.issues)

C5_Witness ==
    /\ call.op = "validateInput"
    /\ Cardinality(ViolatedInputFields(call.arg)) >= 4
    /\ ~call.result.ok
    /\ Paths(call.result.error.issues) = ViolatedInputFields(call.arg)

\* C6: every response validateOutput accepts has a non-empty
\* interpretationSeed; the empty string is rejected.
C6_AcceptedSeedNonEmpty ==
    (call.op = "validateOutput" /\ call.result.ok)
    => /\ call.result.value.interpretationSeed.t = "string"
       /\ call.result.value.interpretationSeed.s # << >>

\* C7: every response validateOutput accepts has no confidence or a
\* confidence in [0, 1]; a confidence below 0 or above 1 is rejected.
C7_ConfidenceInUnitRange ==
    call.op = "validateOutput"
    => LET cf == call.arg.confidence
       IN  /\ call.result.ok
              => \/ call.result.value.confidence.t = "undefined"
                 \/ /\ call.result.value.confidence.t = "number"
                    /\ call.result.value.confidence.n >= 0
                    /\ call.result.value.confidence.n <= ConfidenceScale
           /\ (cf.t = "number" /\ (cf.n < 0 \/ cf.n > ConfidenceScale))
              => ~call.result.ok

C7_Witness ==
    /\ call.op = "validateOutput"
    /\ call.arg.confidence = Num(ConfidenceScale + 1)
    /\ ~call.result.ok
    /\ Paths(call.result.error.issues) = {<<"confidence">>}

-----------------------------------------------------------------------------
(* Properties of sendMessage, under Spec *)

LastMessage == messages[Len(messages)]

AgentFailed == execCount >= 1 /\ ~agentOutcome.ok

\* C2: generateText is called on the agent path only with the
\* interpretationSeed of a response that passed validateOutput; a response
\* failing validation is a failed execution and never reaches generateText.
C2_OnlyValidatedSeedGenerated ==
    genPath = "agent"
    => /\ agentOutcome.ok
       /\ AgentOutputIssues(agentOutcome.value) = << >>
       /\ agentOutcome.value.interpretationSeed.t = "string"
       /\ genPrompt = agentOutcome.value.interpretationSeed.s

C2_Witness ==
    /\ pc = "awaitGen"
    /\ genPath = "agent"
    /\ genCount = 1
    /\ genPrompt = agentOutcome.value.interpretationSeed.s

\* C8: a failure of the agent during a send is caught inside sendMessage and
\* recorded as an assistant error message built from the error, whatever the
\* kind of failure; no exception escapes sendMessage.
C8_AgentFailureCaught ==
    /\ ~escaped
    /\ (pc = "finally" /\ AgentFailed)
       => /\ thrown = NoError
          /\ LastMessage.role = "assistant"
          /\ LastMessage.content =
                <<"Sorry, I encountered an error: ">> \o agentOutcome.error.message
                \o <<". Please check your API key and model configuration.">>

C8_Witness ==
    /\ pc = "finally"
    /\ AgentFailed
    /\ agentOutcome.error.name = "ZodError"
    /\ LastMessage.role = "assistant"
    /\ Len(LastMessage.content) > 2

\* C9: when the agent fails during a send, no generateText call is made for
\* that send: no default interpretationSeed is substituted.
C9_NoGenerationAfterAgentFailure ==
    AgentFailed
    => /\ genCount = 0
       /\ genPath = "none"
       /\ genPrompt = << >>
       /\ pc \in {"catch", "finally"}

C9_Witness ==
    /\ pc = "catch"
    /\ AgentFailed
    /\ genCount = 0
    /\ thrown = agentOutcome.error

\* C10: a failed execution is never retried: within one run the agent's
\* execute is started at most once and generateText is called at most once.
C10_NoRetry ==
    /\ execCount <= 1
    /\ genCount <= 1

C10_Witness ==
    /\ pc = "finally"
    /\ execCount = 1
    /\ genCount = 1
    /\ agentOutcome.ok
    /\ LastMessage.content =
          <<"Sorry, I encountered an error: ", "API key not valid",
            ". Please check your API key and model configuration.">>


-----------------------------------------------------------------------------
(* The agent outputs cache *)

\* C11: a request that was already executed successfully is not executed
\* again while its cache entry is live (the clock of the model never passes
\* a time-to-live): it is served from agentOutputs instead
C11_RepeatServedFromCache ==
    \A i, j \in DOMAIN executed :
        (i < j /\ executed[i].outcome.ok)
            => executed[i].request # executed[j].request

\* The repeat happens although nothing was ever stored in the cache
C11_RepeatExecutedCacheEmpty ==
    /\ Len(executed) = 2
    /\ executed[1].outcome.ok
    /\ executed[1].request = executed[2].request
    /\ agentOutputs = NoMap


-----------------------------------------------------------------------------
(* The agent chaining flow: three calculator agents under Promise.all,     *)
(* then the cross-mapper, the interpreter, the synthesis agent and the      *)
(* text generation, each awaited in turn.  chainPc is "idle" | "awaitAll"   *)
(* | "crossMap" | "interpret" | "synthesize" | "generate" | "done" |         *)
(* "thrown".                                                                *)

\* The array handed to Promise.all, in its order
Calculators == <<"hdAgent", "astroAgent", "numerologyAgent">>

\* What a calculator agent may resolve with
Calculations == {"chart-a", "chart-b"}

\* The user contexts the flow is started with
UserContexts ==
    {[t |-> "object", userQuery |-> <<"Synthesize my current state">>],
     [t |-> "object", userQuery |-> << >>]}

\* const [...] = await Promise.all([...]) is reached: the three execute
\* calls are started
StartChain ==
    /\ chainPc = "idle"
    /\ \E ctx \in UserContexts : userContext' = ctx
    /\ chainPc' = "awaitAll"
    /\ UNCHANGED <<chatVars, call, scriptVars, settled, completionOrder, mergedContext>>

\* A calculator resolves and its value is appended to the collected values
CalculatorResolvesPush ==
    /\ chainPc = "awaitAll"
    /\ \E k \in DOMAIN Calculators, c \in Calculations :
          /\ k \notin {completionOrder[i] : i \in DOMAIN completionOrder}
          /\ settled' = [settled EXCEPT ![Len(completionOrder) + 1] =
                            [producer |-> Calculators[k], calculation |-> c]]
          /\ completionOrder' = Append(completionOrder, k)
    /\ UNCHANGED <<chatVars, call, scriptVars, chainPc, userContext, mergedContext>>

\* A calculator resolves: Promise.all keeps its value at the index of its
\* promise in the array
CalculatorResolves ==
    /\ chainPc = "awaitAll"
    /\ \E k \in DOMAIN Calculators, c \in Calculations :
          /\ k \notin {completionOrder[i] : i \in DOMAIN completionOrder}
          /\ settled' = [settled EXCEPT ![k] =
                            [producer |-> Calculators[k], calculation |-> c]]
          /\ completionOrder' = Append(completionOrder, k)
    /\ UNCHANGED <<chatVars, call, scriptVars, chainPc, userContext, mergedContext>>

\* A calculator rejects: Promise.all rejects at once and the flow throws
CalculatorRejects ==
    /\ chainPc = "awaitAll"
    /\ Len(completionOrder) < Len(Calculators)
    /\ chainPc' = "thrown"
    /\ UNCHANGED <<chatVars, call, scriptVars, settled, completionOrder, userContext,
                   mergedContext>>

\* Promise.all resolves, the array is destructured into hdChart, astroChart
\* and numerology, and crossMapperAgent.execute is called with
\* { hdChart, astroChart, numerology, ...userContext }
CrossMap ==
    /\ chainPc = "awaitAll"
    /\ Len(completionOrder) = Len(Calculators)
    /\ mergedContext' = [t |-> "object",
                         hdChart |-> settled[1],
                         astroChart |-> settled[2],
                         numerology |-> settled[3],
                         userQuery |-> userContext.userQuery]
    /\ chainPc' = "crossMap"
    /\ UNCHANGED <<chatVars, call, scriptVars, settled, completionOrder, userContext>>

\* The await after the current one is reached
NextAwait ==
    [crossMap |-> "interpret", interpret |-> "synthesize",
     synthesize |-> "generate", generate |-> "done"]

\* The awaited call of step 2, 3, 4 or 5 resolves
ChainStepResolves ==
    /\ chainPc \in DOMAIN NextAwait
    /\ chainPc' = NextAwait[chainPc]
    /\ UNCHANGED <<chatVars, call, scriptVars, settled, completionOrder, userContext,
                   mergedContext>>

\* The awaited call of step 2, 3, 4 or 5 rejects
ChainStepRejects ==
    /\ chainPc \in DOMAIN NextAwait
    /\ chainPc' = "thrown"
    /\ UNCHANGED <<chatVars, call, scriptVars, settled, completionOrder, userContext,
                   mergedContext>>

ChainNext ==
    \/ StartChain
    \/ CalculatorResolves
    \/ CalculatorRejects
    \/ CrossMap
    \/ ChainStepResolves
    \/ ChainStepRejects

ChainSpec == Init /\ [][ChainNext]_vars

\* C15: calculators that run concurrently with no dependency between them
\* each end up in the merged context under their own name, whatever the
\* order in which they completed
C15_MergedContextKeyedByStage ==
    mergedContext # NoContext
        => /\ mergedContext.hdChart.producer = "hdAgent"
           /\ mergedContext.astroChart.producer = "astroAgent"
           /\ mergedContext.numerology.producer = "numerologyAgent"
           /\ \A k \in DOMAIN Calculators :
                 settled[k].calculation \in Calculations

\* The merged context is built after the calculators completed in the
\* reverse of their order in the array
C15_Witness ==
    /\ mergedContext # NoContext
    /\ completionOrder = <<3, 2, 1>>
    /\ mergedContext.hdChart.producer = "hdAgent"
    /\ mergedContext.numerology.producer = "numerologyAgent"


-----------------------------------------------------------------------------
(* The chart calculation *)

\* C16: for a longitude from 0 up to but not including 360 degrees
\* longitudeToGate returns a gate in 1..64 and a line in 1..6, and so every
\* gate of a chart that execute returns lies in those ranges
C16_GateAndLineInRange ==
    /\ (call.op = "longitudeToGate" /\ call.arg >= 0 /\ call.arg < 360000)
          => /\ call.result.gate \in 1..64
             /\ call.result.line \in 1..6
    /\ (call.op = "execute" /\ call.result.ok)
          => \A i \in DOMAIN call.result.value.calculation.gates :
                /\ call.result.value.calculation.gates[i].gate \in 1..64
                /\ call.result.value.calculation.gates[i].line \in 1..6

\* The last thousandth of a degree falls in line 6 of gate 64
C16_Witness ==
    /\ call.op = "longitudeToGate"
    /\ call.arg = 359999
    /\ call.result = [gate |-> 64, line |-> 6]

\* A chart with its eleven gates is returned by execute
C16_ChartWitness ==
    /\ call.op = "execute"
    /\ call.result.ok
    /\ Len(call.result.value.calculation.gates) = 11
    /\ call.result.value.calculation.gates[1].gate = 22

\* C19: determineType is total over the subsets of the nine centers: it
\* returns one of the five types, and Reflector exactly when no center is
\* defined
C19_DetermineTypeTotal ==
    call.op = "determineType"
        => /\ call.result.type \in {"Generator", "Projector", "Manifestor", "Reflector",
                                    "Manifesting Generator"}
           /\ (call.result.type = "Reflector") <=> (call.arg = << >>)

\* determineType is called with no defined center
C19_Witness ==
    /\ call.op = "determineType"
    /\ call.arg = << >>
    /\ call.result.type = "Reflector"


-----------------------------------------------------------------------------
(* The two branches of sendMessage *)

\* C17: when the agent succeeded and generateText resolves on the Human
\* Design branch, the run has added exactly one assistant message after its
\* user message: its content is the generated text and its agentData the
\* validated response of the agent
C17_OneAssistantMessagePerSend ==
    [][(pc = "awaitGen" /\ pc' = "finally" /\ genPath = "agent")
          => /\ agentOutcome.ok
             /\ Len(messages') = runBase + 2
             /\ messages'[runBase + 1].role = "user"
             /\ messages'[runBase + 2].role = "assistant"
             /\ messages'[runBase + 2].content = fullResponse'
             /\ messages'[runBase + 2].agentData = agentOutcome.value]_vars

\* A second send on the Human Design branch has received its generated text
C17_Witness ==
    /\ pc = "finally"
    /\ genPath = "agent"
    /\ runBase = 2
    /\ Len(messages) = 4
    /\ fullResponse # << >>
    /\ messages[4].role = "assistant"
    /\ messages[4].content = fullResponse
    /\ messages[4].agentData = agentOutcome.value

\* The query contains one of the four keywords, whatever the case of its
\* letters
HasKeyword(q) ==
    \E keyword \in { <<"d", "e", "s", "i", "g", "n">>, <<"c", "h", "a", "r", "t">>,
                     <<"t", "y", "p", "e">>, <<"g", "a", "t", "e">> } :
        \E at \in 0..(Len(q) - Len(keyword)) :
            \A k \in DOMAIN keyword : LowerOf(q[at + k]) = keyword[k]

\* C18: a run of sendMessage executes the Human Design agent exactly when
\* the lower-cased query contains 'design', 'chart', 'type' or 'gate';
\* otherwise no agent is executed and generateText is called with the
\* prompt built directly from the query
C18_AgentRunsIffKeyword ==
    pc # "idle"
        => /\ HasKeyword(query)
                => /\ pc = "execute" \/ execCount = 1
                   /\ genPath # "generic"
           /\ ~HasKeyword(query)
                => /\ pc # "execute"
                   /\ execCount = 0
                   /\ agentOutcome = NoOutcome
                   /\ pc = "genericPlaceholder" \/ genCount = 1
                   /\ genCount = 1 => genPath = "generic" /\ genPrompt = GenericPrompt(query)

\* An upper-case keyword has sent the run through the agent
C18_Witness ==
    /\ query = <<"C", "H", "A", "R", "T">>
    /\ execCount = 1
    /\ pc = "awaitGen"
    /\ genPath = "agent"

\* A near miss of the keywords has gone to generateText directly
C18_GenericWitness ==
    /\ query = <<"d", "e", "s", "i", "g", " ", "n">>
    /\ execCount = 0
    /\ pc = "awaitGen"
    /\ genPath = "generic"


-----------------------------------------------------------------------------
(* The integration test script.  scriptPc is "idle" (before the first      *)
(* statement) | "running" (a test awaits a model call) | "report" | "done"  *)
(* | "exited" (process.exit was called).                                    *)

\* What an environment variable can hold after dotenv/config
EnvValues == {Undef, Str(<< >>), Str(<<"AIzaSy-test-key">>)}

\* process.env.EXPO_PUBLIC_GOOGLE_API_KEY || process.env.GOOGLE_API_KEY
API_KEY ==
    IF Truthy(env.EXPO_PUBLIC_GOOGLE_API_KEY) THEN env.EXPO_PUBLIC_GOOGLE_API_KEY
    ELSE env.GOOGLE_API_KEY

\* The tests in the order runAllTests awaits them
Tests ==
    <<"vercelBasic", "vercelSynthesis", "vercelQuick", "langchainBasic",
      "langchainSystem", "langchainSynthesis", "langchainConversation",
      "crossCompatibility">>

\* The model calls each test awaits, one after the other
CallsOf == <<1, 1, 1, 1, 1, 1, 2, 2>>

\* What a model call of the two SDKs rejects with
Rejections == {"APICallError", "TypeError"}

ScriptInit ==
    /\ ChatMounted
    /\ birthData = NullBirthData
    /\ ChainIdle
    /\ env \in [EXPO_PUBLIC_GOOGLE_API_KEY : EnvValues, GOOGLE_API_KEY : EnvValues]
    /\ scriptPc = "idle"
    /\ started = << >>
    /\ results = << >>
    /\ awaited = 0
    /\ modelCalls = 0
    /\ exitCode = -1

\* The key check that only warns and goes on
CheckApiKeyWarnOnly ==
    /\ scriptPc = "idle"
    /\ scriptPc' = "running"
    /\ started' = Append(started, Tests[1])
    /\ modelCalls' = modelCalls + 1
    /\ UNCHANGED <<chatVars, call, chainVars, env, results, awaited, exitCode>>

\* The top level of the script: without a key process.exit(1); with one,
\* runAllTests starts and the first test issues its model call
CheckApiKey ==
    /\ scriptPc = "idle"
    /\ IF ~Truthy(API_KEY)
       THEN /\ scriptPc' = "exited"
            /\ exitCode' = 1
            /\ UNCHANGED <<started, modelCalls>>
       ELSE /\ scriptPc' = "running"
            /\ started' = Append(started, Tests[1])
            /\ modelCalls' = modelCalls + 1
            /\ UNCHANGED exitCode
    /\ UNCHANGED <<chatVars, call, chainVars, env, results, awaited>>

\* The running test returned passed: the next test issues its first model
\* call, or after the last test the results are reported
TestReturns(passed) ==
    /\ results' = Append(results, passed)
    /\ awaited' = 0
    /\ IF Len(results) + 1 = Len(Tests)
       THEN scriptPc' = "report" /\ UNCHANGED <<started, modelCalls>>
       ELSE /\ scriptPc' = "running"
            /\ started' = Append(started, Tests[Len(results) + 2])
            /\ modelCalls' = modelCalls + 1
    /\ UNCHANGED exitCode

\* The awaited model call resolves: the test issues its next call or
\* returns true
ModelCallResolves ==
    /\ scriptPc = "running"
    /\ IF awaited + 1 < CallsOf[Len(results) + 1]
       THEN /\ awaited' = awaited + 1
            /\ modelCalls' = modelCalls + 1
            /\ UNCHANGED <<scriptPc, started, results, exitCode>>
       ELSE TestReturns(TRUE)
    /\ UNCHANGED <<chatVars, call, chainVars, env>>

\* A test without its try/catch: the rejection leaves the test,
\* runAllTests rejects and its catch handler calls process.exit(1)
ModelCallRejectsThrows ==
    /\ scriptPc = "running"
    /\ \E reason \in Rejections :
          /\ scriptPc' = "exited"
          /\ exitCode' = 1
          /\ UNCHANGED <<started, results, awaited, modelCalls>>
    /\ UNCHANGED <<chatVars, call, chainVars, env>>

\* The awaited model call rejects with an Error: the test's catch block
\* prints error.message and returns false
ModelCallRejects ==
    /\ scriptPc = "running"
    /\ \E reason \in Rejections : TestReturns(FALSE)
    /\ UNCHANGED <<chatVars, call, chainVars, env>>

\* runAllTests prints the final results and resolves; the process ends
Report ==
    /\ scriptPc = "report"
    /\ scriptPc' = "done"
    /\ exitCode' = 0
    /\ UNCHANGED <<chatVars, call, chainVars, env, started, results, awaited, modelCalls>>

ScriptNext ==
    \/ CheckApiKey
    \/ ModelCallResolves
    \/ ModelCallRejects
    \/ Report

ScriptSpec == ScriptInit /\ [][ScriptNext]_vars

\* Every awaited model call returns or throws, and the report is printed
ScriptFairSpec == ScriptSpec /\ WF_vars(ScriptNext)

\* C20: with neither EXPO_PUBLIC_GOOGLE_API_KEY nor GOOGLE_API_KEY set the
\* script exits with code 1 before any model call is made
C20_ExitsWithoutKey ==
    (/\ env.EXPO_PUBLIC_GOOGLE_API_KEY = Undef
     /\ env.GOOGLE_API_KEY = Undef
     /\ scriptPc # "idle")
        => /\ scriptPc = "exited"
           /\ exitCode = 1
           /\ modelCalls = 0
           /\ results = << >>

\* The script has exited on the missing key
C20_Witness ==
    /\ env.EXPO_PUBLIC_GOOGLE_API_KEY = Undef
    /\ env.GOOGLE_API_KEY = Undef
    /\ scriptPc = "exited"
    /\ exitCode = 1
    /\ modelCalls = 0


\* C21: the eight tests are called in their listed order, each only after
\* the one before it has returned; a failed model call makes its test
\* return false without throwing, so the script never exits after a test
\* has started, all eight tests run and the final report is reached
\* whatever tests fail
C21_TestsRunInOrderToReport ==
    /\ [](/\ started = SubSeq(Tests, 1, Len(started))
          /\ Len(started) \in {Len(results), Len(results) + 1}
          /\ scriptPc = "running" <=> Len(started) = Len(results) + 1
          /\ scriptPc \in {"report", "done"} => started = Tests /\ Len(results) = Len(Tests)
          /\ scriptPc = "exited" => started = << >>)
    /\ (scriptPc = "running") ~> (scriptPc = "done")

\* The report is reached after every one of the eight tests failed
C21_Witness ==
    /\ scriptPc = "done"
    /\ started = Tests
    /\ results = [i \in DOMAIN Tests |-> FALSE]
    /\ exitCode = 0


-----------------------------------------------------------------------------
(* The messages list *)

\* C22: the ids of the messages are pairwise distinct
C22_DistinctIds ==
    \A i, j \in DOMAIN messages :
        i # j => messages[i].id # messages[j].id

\* generateText rejected in the millisecond in which the placeholder was
\* created: the placeholder and the error message of the run share an id
C22_PlaceholderAndErrorShareId ==
    /\ pc = "finally"
    /\ Len(messages) = runBase + 3
    /\ messages[runBase + 2].role = "assistant"
    /\ messages[runBase + 3].role = "assistant"
    /\ messages[runBase + 2].id = messages[runBase + 3].id

\* C23: when a run reaches its end, none of the assistant messages it added
\* has empty content, except a placeholder filled with an empty generated
\* text (which is then the last message)
C23_NoEmptyPlaceholderLeft ==
    pc = "finally"
        => \A i \in (runBase + 1)..Len(messages) :
              (messages[i].role = "assistant" /\ messages[i].content = << >>)
                  => i = Len(messages)

\* generateText rejected: the run ends with its placeholder still empty,
\* followed by the error message
C23_EmptyPlaceholderLeft ==
    /\ pc = "finally"
    /\ Len(messages) = runBase + 3
    /\ messages[runBase + 2].role = "assistant"
    /\ messages[runBase + 2].content = << >>
    /\ messages[runBase + 3].content = ErrorContent(PlainError(<<"API key not valid">>))

\* C24: a run of sendMessage starts only when no run is in progress, and a
\* run that has started and not reached the end of its finally block has
\* isLoading set, so the agent and generateText are only ever called by the
\* one run in progress
C24_OneRunAtATime ==
    /\ [](pc # "idle" => isLoading)
    /\ [][sends' # sends => (pc = "idle" /\ ~isLoading /\ pc' # "idle" /\ isLoading')]_vars

\* A second run awaits generateText after the first one has finished
C24_Witness ==
    /\ sends = 2
    /\ pc = "awaitGen"
    /\ isLoading
    /\ input = << >>

\* C25: every send that sets isLoading to true is followed by isLoading
\* set back to false, given that the agent and generateText return or throw
C25_LoadingEventuallyFalse ==
    isLoading ~> ~isLoading

\* A run whose text generation failed has ended with isLoading false
C25_Witness ==
    /\ sends = 1
    /\ pc = "idle"
    /\ ~isLoading
    /\ Len(messages) = 3
    /\ messages[3].content = ErrorContent(PlainError(<<"API key not valid">>))

\* C26: no step removes or reorders a message or changes its id or role, and
\* the only content that changes is that of the empty assistant placeholder
\* the run in progress created
C26_MessagesOnlyGrow ==
    [][/\ Len(messages') >= Len(messages)
       /\ \A i \in DOMAIN messages :
             /\ messages'[i].id = messages[i].id
             /\ messages'[i].role = messages[i].role
             /\ messages'[i].content # messages[i].content
                   => /\ i = runBase + 2
                      /\ pc = "awaitGen"
                      /\ messages[i].role = "assistant"
                      /\ messages[i].id = assistantMessageId
                      /\ messages[i].content = << >>]_vars

\* The second run has filled its placeholder and the assistant message of
\* the first run, left empty by an empty generated text, is as it was
C26_Witness ==
    /\ pc = "finally"
    /\ runBase = 2
    /\ Len(messages) = 4
    /\ messages[2].role = "assistant"
    /\ messages[2].content = << >>
    /\ messages[4].role = "assistant"
    /\ messages[4].content # << >>


-----------------------------------------------------------------------------
(* The chart and the birth data *)

C28_CentersPartition ==
    call.op = "determineCenters"
        => LET defined == call.result.definedCenters
               undefined == call.result.undefinedCenters
           IN  /\ Range(defined) \cap Range(undefined) = {}
               /\ Range(defined) \cup Range(undefined) = Range(CenterNames)
               /\ Len(defined) + Len(undefined) = Len(CenterNames)
               /\ \A c \in DOMAIN centerMapping :
                     (centerMapping[c][1] \in Range(defined))
                         <=> (\E i \in DOMAIN call.arg : call.arg[i] \in centerMapping[c][2])

\* Gate 51, mapped to two centers, defines both of them
C28_Witness ==
    /\ call.op = "determineCenters"
    /\ call.arg = <<51, 51>>
    /\ call.result.definedCenters = <<"G Center", "Heart/Ego">>
    /\ Len(call.result.undefinedCenters) = 7

=============================================================================
